---- MODULE Spec2Model ----
(***************************************************************************)
(* Model of the xinference bootstrap (scripts/bootstrap.py) and of the     *)
(* RunPod serverless handler (scripts/rp_handler.py).                      *)
(*                                                                         *)
(*   Spec      the serverless worker: job threads running handler(), and   *)
(*             so _init_runtime(), and the _shutdown hook                  *)
(*   SpecMain  bootstrap.main(): start_server, the signal handlers,        *)
(*             launch_models (ensure_s3_model, wait_for_server, the        *)
(*             primary and the fallback launch), stop_server               *)
(*   SpecWait  wait_for_server alone, with its clock                       *)
(*   SpecStop  stop_server called repeatedly on one handle                 *)
(*   SpecSync  ensure_s3_model step by step: the required keys, the        *)
(*             listing, the download loop                                  *)
(*   SpecKwargs  build_launch_kwargs under each environment                *)
(*                                                                         *)
(* rp_handler.py imports LAUNCHED_MODEL_UID, MODEL_READY,                  *)
(* _decode_base64_image and _fetch_image_from_url from bootstrap and calls *)
(* wait_for_server(endpoint, server_proc=...) and                          *)
(* launch_models(endpoint, server_proc): the bootstrap.py at hand defines  *)
(* none of the four names and neither signature.  The handler is modelled  *)
(* against the bootstrap interface it is written for: each of these calls  *)
(* either returns or raises, and the two imported values are the ones      *)
(* bound when rp_handler is imported.                                      *)
(***************************************************************************)
EXTENDS Integers, Sequences, FiniteSets, TLC

\* ------------------------------------------------------------------ bounds
NumThreads == 2        \* job threads of the serverless worker
MaxJobs == 2           \* jobs the worker receives in one run

\* --------------------------------------------------------------- character
\* strings are sequences of one-character strings, so that lower(), the
\* substring test and int() are computed rather than assumed
Digits == {"0", "1", "2", "3", "4", "5", "6", "7", "8", "9"}

RECURSIVE StripLeft(_)
StripLeft(s) == IF s # <<>> /\ Head(s) = " " THEN StripLeft(Tail(s)) ELSE s

RECURSIVE StripRight(_)
StripRight(s) ==
  IF s # <<>> /\ s[Len(s)] = " " THEN StripRight(SubSeq(s, 1, Len(s) - 1)) ELSE s

Strip(s) == StripLeft(StripRight(s))

\* the text after an optional sign
Unsigned(s) == IF s # <<>> /\ Head(s) \in {"+", "-"} THEN Tail(s) ELSE s

\* int(str): surrounding blanks, an optional sign, then digits, single
\* underscores allowed between digits
IntParses(s) ==
  LET b == Unsigned(Strip(s))
  IN /\ b # <<>>
     /\ \A i \in 1..Len(b) : b[i] \in Digits \cup {"_"}
     /\ b[1] \in Digits /\ b[Len(b)] \in Digits
     /\ \A i \in 1..(Len(b) - 1) : ~(b[i] = "_" /\ b[i + 1] = "_")

\* parse_bool: str(value).lower() in {"1","true","t","yes","y","on"}
LowerChar(c) ==
  CASE c = "A" -> "a" [] c = "B" -> "b" [] c = "C" -> "c" [] c = "D" -> "d"
    [] c = "E" -> "e" [] c = "F" -> "f" [] c = "G" -> "g" [] c = "H" -> "h"
    [] c = "I" -> "i" [] c = "J" -> "j" [] c = "K" -> "k" [] c = "L" -> "l"
    [] c = "M" -> "m" [] c = "N" -> "n" [] c = "O" -> "o" [] c = "P" -> "p"
    [] c = "Q" -> "q" [] c = "R" -> "r" [] c = "S" -> "s" [] c = "T" -> "t"
    [] c = "U" -> "u" [] c = "V" -> "v" [] c = "W" -> "w" [] c = "X" -> "x"
    [] c = "Y" -> "y" [] c = "Z" -> "z" [] OTHER -> c

Lower(s) == [i \in 1..Len(s) |-> LowerChar(s[i])]

Truthy ==
  { <<"1">>, <<"t", "r", "u", "e">>, <<"t">>, <<"y", "e", "s">>, <<"y">>,
    <<"o", "n">> }

\* parse_bool without the lower()
parse_bool_cased(value) == value \in Truthy

parse_bool(value) == Lower(value) \in Truthy

\* needle in hay (Python's substring test)
Contains(hay, needle) ==
  \E i \in 1..(Len(hay) - Len(needle) + 1) :
    SubSeq(hay, i, i + Len(needle) - 1) = needle


\* an optional value: None is <<>>, a present value v is <<v>>
None == <<>>
Some(v) == <<v>>

\* os.getenv(key) and os.getenv(key, default)
getenv(env, key) == env[key]
getenv_default(env, key, default) == IF env[key] = None THEN default ELSE env[key][1]

\* Python truth of an optional string: None and "" are false
IsTruthy(opt) == opt # None /\ opt[1] # <<>>

VARIABLES
  \* ---- rp_handler.py: module globals
  _initialized,            \* the readiness flag
  _init_lock,              \* 0 when free, else the thread holding it
  _server_proc,            \* 0 for None, else the handle start_server returned
  _xinference_endpoint,    \* FALSE for None, TRUE once an endpoint is stored
  environ,                 \* the worker's environment
  daemons,                 \* state of every process start_server has spawned
  \* ---- job threads
  pc,                      \* where each thread is in handler / _init_runtime
  ret,                     \* what the latest handler call to end returned
  jobs,                    \* jobs received so far
  calledReady,             \* per thread: _initialized was true as its call began
  cleaned,                 \* the cleanup hook has run
  \* ---- history of the boot steps
  startCount, waitCount, launchCount,   \* executions of each boot step
  bootFailures,                         \* boot sequences that raised
  bootSuccesses                         \* boot sequences run to their end

hvars ==
  << _initialized, _init_lock, _server_proc, _xinference_endpoint, environ,
     daemons, pc, ret, jobs, calledReady, cleaned, startCount, waitCount, launchCount,
     bootFailures, bootSuccesses >>

VARIABLES
  \* ---- main
  mpc,            \* where main is
  auto_launch,    \* main's local
  server_proc,    \* the daemon main started: "none" before, then its state
  installed,      \* _handle_signal is installed for SIGTERM and SIGINT
  pending,        \* the exception in flight in main: "none", "error", "exit",
                  \* "stop_error" (raised by stop_server)
  exitKind,       \* how main ended: "none" while it runs
  signals,        \* signals delivered so far
  \* ---- wait_for_server
  wpc,            \* "idle", "poll", "sleep", "returned", "raised", "aborted"
  clock,          \* time.time(), in seconds since the model's start
  deadline,
  status,         \* what the latest poll saw: -1 none yet, 0 a transport error
  okSeen,         \* some poll of this wait saw a status below 500
  polledAt,       \* the time at which the latest poll began
  \* ---- launch_models
  s3,             \* ensure_s3_model: "none", "skipped", "ok", "error"
  launch,         \* model_name, fallback_model, the launch_model calls made,
                  \* the message of the primary's error
  lm,             \* launch_models: "none", "returned", "raised"
  lmError,        \* the error launch_models raised
  \* ---- stop_server
  termSent, killSent,   \* terminate() and kill() signals sent
  stopCalls,            \* calls of stop_server
  stopSends,            \* calls of stop_server that sent a signal
  lastStop              \* the latest call: the state it found, what it sent

waitvars == << wpc, clock, deadline, status, okSeen, polledAt >>
launchvars == << s3, launch, lm, lmError >>
stopvars == << termSent, killSent, stopCalls, stopSends, lastStop >>
mainvars == << mpc, auto_launch, installed, pending, exitKind, signals >>
mvars == << mainvars, server_proc, waitvars, launchvars, stopvars >>

VARIABLES
  \* ---- ensure_s3_model
  sync,           \* the locals of a run of ensure_s3_model and what it did
  \* ---- build_launch_kwargs
  osenv,          \* os.environ as build_launch_kwargs reads it
  launch_kwargs   \* the dict build_launch_kwargs returned, None before

pvars == << sync, osenv, launch_kwargs >>

Threads == 1..NumThreads

\* from bootstrap import MODEL_READY, LAUNCHED_MODEL_UID: the names are bound
\* in rp_handler when it is imported, before any job, and rp_handler never
\* assigns them
MODEL_READY == FALSE
LAUNCHED_MODEL_UID == None

\* ---------------------------------------------------------- stop_server
\* a process is "running", "killed" (SIGKILL sent, not yet reaped: poll()
\* still answers None) or "exited"; "none" is the absent handle

\* StopIsNoop without the poll(): only the absent handle is skipped
StopIsNoop_handle_only(p) == p = "none"

\* `if not proc or proc.poll() is not None: return`
StopIsNoop(p) == p = "none" \/ p = "exited"

\* `proc.terminate()` on a live process: the signal is sent, or the call
\* raises, which `except Exception: pass` swallows
TerminateResults == {"sent", "raised"}

\* `proc.wait(timeout=10)` after terminate() on a process in state p: it
\* exits within the wait; or TimeoutExpired, and kill() is sent; or
\* TimeoutExpired, and kill() raises: the call is inside the except clause,
\* where `except Exception` does not reach; or the wait raises otherwise,
\* which is swallowed
WaitResults(p) ==
  IF p = "exited"
  THEN { [state |-> "exited", kill |-> 0, raised |-> FALSE] }
  ELSE { [state |-> "exited", kill |-> 0, raised |-> FALSE],
         [state |-> "killed", kill |-> 1, raised |-> FALSE],
         [state |-> p, kill |-> 0, raised |-> TRUE],
         [state |-> p, kill |-> 0, raised |-> FALSE] }

\* one whole call of stop_server on a process in state p: the state it
\* leaves, the signals it sent, whether it raised
StopServerResults(p) ==
  IF StopIsNoop(p)
  THEN { [state |-> p, term |-> 0, kill |-> 0, raised |-> FALSE] }
  ELSE { [state |-> p, term |-> 0, kill |-> 0, raised |-> FALSE] }  \* terminate() raised
       \cup
       { [state |-> w.state, term |-> 1, kill |-> w.kill, raised |-> w.raised] :
           w \in WaitResults(p) }

\* ------------------------------------------------------------- the jobs
\* job["input"]: missing or empty, a mapping, or a truthy value that is no
\* mapping; image_url / image_base64: whether the field is set (truthy)
JobInputs ==
  { [input |-> "absent", image_url |-> FALSE, image_base64 |-> FALSE],
    [input |-> "bad", image_url |-> FALSE, image_base64 |-> FALSE],
    [input |-> "dict", image_url |-> TRUE, image_base64 |-> FALSE],
    [input |-> "dict", image_url |-> TRUE, image_base64 |-> TRUE],
    [input |-> "dict", image_url |-> FALSE, image_base64 |-> TRUE] }

NoJob == [input |-> "none", image_url |-> FALSE, image_base64 |-> FALSE]

\* what a handler call gave back, with what it did on the way: job is the
\* job it was given, loader the image loader it called, posted whether it
\* sent the inference request, init the value of _initialized as it returned
NoRet ==
  [kind |-> "none", error |-> "", ready |-> FALSE, init |-> FALSE,
   job |-> NoJob, loader |-> "none", loaded |-> FALSE, posted |-> FALSE]

\* a returned error object {"error": e, "message": ..., "ready": MODEL_READY}
ErrorObject(e, j, loader, loaded, posted) ==
  [kind |-> "error", error |-> e, ready |-> MODEL_READY, init |-> _initialized,
   job |-> j, loader |-> loader, loaded |-> loaded,
   posted |-> posted]

\* a returned result {"output": ..., "model_uid": ..., "ready": MODEL_READY}
ResultObject(j, loader, loaded) ==
  [kind |-> "output", error |-> "", ready |-> MODEL_READY, init |-> _initialized,
   job |-> j, loader |-> loader, loaded |-> loaded,
   posted |-> TRUE]

\* an exception leaving handler
Raised(e, j, loader, loaded, posted) ==
  [kind |-> "raised", error |-> e, ready |-> FALSE, init |-> _initialized,
   job |-> j, loader |-> loader, loaded |-> loaded,
   posted |-> posted]

HandlerEnvs ==
  [ AUTO_LAUNCH_MODEL : {None, Some(<<"0">>)},
    VIDEO_MODEL_UID : {None, Some(<<"w">>)},
    API_HTTP_TIMEOUT : {None, Some(<<"3", "0">>), Some(<<"a", "b", "c">>)} ]

HInit ==
  /\ _initialized = FALSE
  /\ _init_lock = 0
  /\ _server_proc = 0
  /\ _xinference_endpoint = FALSE
  /\ environ \in HandlerEnvs
  /\ daemons = <<>>
  /\ pc = [t \in Threads |-> "idle"]
  /\ ret = NoRet
  /\ jobs = 0 /\ calledReady = [t \in Threads |-> FALSE]
  /\ cleaned = FALSE
  /\ startCount = 0 /\ waitCount = 0 /\ launchCount = 0
  /\ bootFailures = 0 /\ bootSuccesses = 0

\* ------------------------------------------------ handler, _init_runtime
\* handler returns r to the serverless runtime (or raises, r.kind = "raised")
Return(t, r) ==
  /\ ret' = r
  /\ pc' = [pc EXCEPT ![t] = "idle"]

Goto(t, where) ==
  /\ pc' = [pc EXCEPT ![t] = where]
  /\ UNCHANGED ret

\* the runtime hands a job to an idle thread, which calls handler(job); the
\* job's content is drawn where handler first reads it, after _init_runtime
JobBegin(t) ==
  /\ pc[t] = "idle" /\ ~cleaned /\ jobs < MaxJobs
  /\ pc' = [pc EXCEPT ![t] = "check"]
  /\ jobs' = jobs + 1
  /\ calledReady' = [calledReady EXCEPT ![t] = _initialized]
  /\ UNCHANGED << _initialized, _init_lock, _server_proc, _xinference_endpoint,
                  environ, daemons, ret, cleaned, startCount, waitCount,
                  launchCount, bootFailures, bootSuccesses >>
  /\ UNCHANGED << mvars, pvars >>

\* InitCheck without the test of the flag before the lock
InitCheck_no_fast_path(t) ==
  /\ pc[t] = "check"
  /\ Goto(t, "acquire")
  /\ UNCHANGED << _initialized, _init_lock, _server_proc, _xinference_endpoint,
                  environ, daemons, jobs, calledReady, cleaned, startCount,
                  waitCount, launchCount, bootFailures, bootSuccesses >>
  /\ UNCHANGED << mvars, pvars >>

\* _init_runtime: `if _initialized: return`, before the lock
InitCheck(t) ==
  /\ pc[t] = "check"
  /\ Goto(t, IF _initialized THEN "body" ELSE "acquire")
  /\ UNCHANGED << _initialized, _init_lock, _server_proc, _xinference_endpoint,
                  environ, daemons, jobs, calledReady, cleaned, startCount, waitCount,
                  launchCount, bootFailures, bootSuccesses >>
  /\ UNCHANGED << mvars, pvars >>

\* `with _init_lock:` entered
InitAcquire(t) ==
  /\ pc[t] = "acquire" /\ _init_lock = 0
  /\ _init_lock' = t
  /\ Goto(t, "locked")
  /\ UNCHANGED << _initialized, _server_proc, _xinference_endpoint, environ,
                  daemons, jobs, calledReady, cleaned, startCount, waitCount, launchCount,
                  bootFailures, bootSuccesses >>
  /\ UNCHANGED << mvars, pvars >>

\* the body of the with block: the second check, configure_xinference_home,
\* the endpoint; the lock is released as the block is left, by return, by
\* an exception of configure_xinference_home (which handler catches) or by
\* falling through to the try block below it
InitLocked(t) ==
  /\ pc[t] = "locked" /\ _init_lock = t
  /\ _init_lock' = 0
  /\ \/ /\ _initialized
        /\ Goto(t, "body")
        /\ UNCHANGED << _xinference_endpoint, bootFailures >>
     \/ /\ ~_initialized                  \* configure_xinference_home raised
        /\ Return(t, ErrorObject("init_failed", NoJob, "none", FALSE, FALSE))
        /\ UNCHANGED << _xinference_endpoint, bootFailures >>
     \/ /\ ~_initialized
        /\ _xinference_endpoint' = TRUE
        /\ Goto(t, "start_server")
        /\ UNCHANGED bootFailures
  /\ UNCHANGED << _initialized, _server_proc, environ, daemons, jobs, calledReady, cleaned,
                  startCount, waitCount, launchCount, bootSuccesses >>
  /\ UNCHANGED << mvars, pvars >>

\* InitFails with the failure remembered in the flag
InitFails_cached(t) ==
  /\ Return(t, ErrorObject("init_failed", NoJob, "none", FALSE, FALSE))
  /\ bootFailures' = bootFailures + 1
  /\ _initialized' = TRUE

\* `except BaseException: raise RuntimeError(...)`, which handler turns into
\* the init_failed error object; _initialized is left as it is
InitFails(t) ==
  /\ Return(t, ErrorObject("init_failed", NoJob, "none", FALSE, FALSE))
  /\ bootFailures' = bootFailures + 1
  /\ UNCHANGED _initialized

\* `_server_proc = start_server(host, port, log_level)`
BootStart(t) ==
  /\ pc[t] = "start_server"
  /\ startCount' = startCount + 1
  /\ \/ /\ daemons' = Append(daemons, "running")
        /\ _server_proc' = Len(daemons) + 1
        /\ Goto(t, "wait_for_server")
        /\ UNCHANGED << _initialized, bootFailures >>
     \/ /\ InitFails(t)                       \* Popen raised
        /\ UNCHANGED << daemons, _server_proc >>
  /\ UNCHANGED << _init_lock, _xinference_endpoint, environ, jobs, calledReady, cleaned,
                  waitCount, launchCount, bootSuccesses >>
  /\ UNCHANGED << mvars, pvars >>

\* `wait_for_server(endpoint, server_proc=_server_proc)`
BootWait(t) ==
  /\ pc[t] = "wait_for_server"
  /\ waitCount' = waitCount + 1
  /\ \/ /\ Goto(t, "launch_models")
        /\ UNCHANGED << _initialized, bootFailures >>
     \/ InitFails(t)
  /\ UNCHANGED << _init_lock, _server_proc, _xinference_endpoint, environ,
                  daemons, jobs, calledReady, cleaned, startCount, launchCount,
                  bootSuccesses >>
  /\ UNCHANGED << mvars, pvars >>

\* `if auto_launch: launch_models(endpoint, _server_proc)`, then
\* `_initialized = True`
BootLaunch(t) ==
  /\ pc[t] = "launch_models"
  /\ LET auto ==
           parse_bool(getenv_default(environ, "AUTO_LAUNCH_MODEL", <<"1">>))
     IN \/ /\ launchCount' = IF auto THEN launchCount + 1 ELSE launchCount
           /\ _initialized' = TRUE
           /\ bootSuccesses' = bootSuccesses + 1
           /\ Goto(t, "body")
           /\ UNCHANGED bootFailures
        \/ /\ auto
           /\ launchCount' = launchCount + 1
           /\ InitFails(t)
           /\ UNCHANGED bootSuccesses
  /\ UNCHANGED << _init_lock, _server_proc, _xinference_endpoint, environ,
                  daemons, jobs, calledReady, cleaned, startCount, waitCount >>
  /\ UNCHANGED << mvars, pvars >>

\* _ensure_model_uid: LAUNCHED_MODEL_UID or os.getenv("VIDEO_MODEL_UID")
model_uid(env) ==
  IF IsTruthy(LAUNCHED_MODEL_UID) THEN LAUNCHED_MODEL_UID
  ELSE getenv(env, "VIDEO_MODEL_UID")

\* ImageLoader with image_base64 tested first
ImageLoader_base64_first(j) ==
  IF j.image_base64 THEN "base64" ELSE IF j.image_url THEN "url" ELSE "none"

\* which loader the job's image goes through: image_url is tested first
ImageLoader(j) ==
  IF j.image_url THEN "url" ELSE IF j.image_base64 THEN "base64" ELSE "none"

\* the loader was called and returned the image bytes
Loaded(j, imageOk) == ImageLoader(j) # "none" /\ imageOk

\* `api_timeout = int(os.getenv("API_HTTP_TIMEOUT", "600"))`
ApiTimeoutParses(env) ==
  IntParses(getenv_default(env, "API_HTTP_TIMEOUT", <<"6", "0", "0">>))

\* what the daemon answers to the inference request: a status, or 0 for a
\* transport error or a timeout of the post
InferReplies == {0, 200, 400}

\* _call_xinference raises without an endpoint, on a transport error and on
\* a status >= 400
CallFails(reply) == ~_xinference_endpoint \/ reply = 0 \/ reply >= 400

\* handler after _init_runtime has returned: the job's input, the image,
\* the model uid, the timeout and the inference call.  imageOk: the loader
\* returned rather than raised; reply: the daemon's answer.  None of these
\* steps writes shared state.
HandlerBody(j, env, imageOk, reply) ==
  IF j.input = "bad"
  THEN Raised("AttributeError", j, "none", FALSE, FALSE)   \* job_input.get: in no try block
  ELSE IF ImageLoader(j) # "none" /\ ~imageOk
  THEN ErrorObject("input_error", j, ImageLoader(j), FALSE, FALSE)
  ELSE IF ~IsTruthy(model_uid(env))
  THEN ErrorObject("model_not_ready", j, ImageLoader(j), Loaded(j, imageOk), FALSE)
  ELSE IF ~ApiTimeoutParses(env)
  THEN Raised("ValueError", j, ImageLoader(j), Loaded(j, imageOk), FALSE)  \* int(...): in no try block
  ELSE IF CallFails(reply)
  THEN ErrorObject("inference_error", j, ImageLoader(j), Loaded(j, imageOk),
                   _xinference_endpoint)
  ELSE ResultObject(j, ImageLoader(j), Loaded(j, imageOk))

HandlerRun(t) ==
  /\ pc[t] = "body"
  /\ \E j \in JobInputs, imageOk \in BOOLEAN, reply \in InferReplies :
       Return(t, HandlerBody(j, environ, imageOk, reply))
  /\ UNCHANGED << _initialized, _init_lock, _server_proc, _xinference_endpoint,
                  environ, daemons, jobs, calledReady, cleaned, startCount, waitCount,
                  launchCount, bootFailures, bootSuccesses >>
  /\ UNCHANGED << mvars, pvars >>

\* _shutdown, the cleanup hook: stop_server(_server_proc)
Shutdown ==
  /\ ~cleaned /\ \A t \in Threads : pc[t] = "idle"
  /\ cleaned' = TRUE
  /\ IF _server_proc = 0
     THEN UNCHANGED daemons
     ELSE \E r \in StopServerResults(daemons[_server_proc]) :
            daemons' = [daemons EXCEPT ![_server_proc] = r.state]
  /\ UNCHANGED << _initialized, _init_lock, _server_proc, _xinference_endpoint,
                  environ, pc, ret, jobs, calledReady, startCount, waitCount,
                  launchCount, bootFailures, bootSuccesses >>
  /\ UNCHANGED << mvars, pvars >>

HNext ==
  \/ \E t \in Threads : JobBegin(t)
  \/ \E t \in Threads : InitCheck(t)
  \/ \E t \in Threads : InitAcquire(t)
  \/ \E t \in Threads : InitLocked(t)
  \/ \E t \in Threads : BootStart(t)
  \/ \E t \in Threads : BootWait(t)
  \/ \E t \in Threads : BootLaunch(t)
  \/ \E t \in Threads : HandlerRun(t)
  \/ Shutdown

\* ===================================================== bootstrap.py: main
MaxSignals == 1        \* SIGTERM / SIGINT deliveries in one run of main

TIMEOUT == 300         \* wait_for_server: timeout
INTERVAL == 3          \* wait_for_server: interval
REQUEST_TIMEOUT == 5   \* wait_for_server: requests.get(url, timeout=5)

DefaultModelName ==
  << "W", "a", "n", "2", ".", "1", "-", "i", "2", "v", "-", "1", "4", "B", "-",
     "4", "8", "0", "p" >>
OtherModelName == << "W", "a", "n", "2", ".", "2", "-", "i", "2", "v" >>

already_launched ==
  << "a", "l", "r", "e", "a", "d", "y", " ", "l", "a", "u", "n", "c", "h", "e", "d" >>
already_exists ==
  << "a", "l", "r", "e", "a", "d", "y", " ", "e", "x", "i", "s", "t", "s" >>

\* messages of the errors client.launch_model raises
MsgLaunched ==
  << "M", "o", "d", "e", "l", " ", "a", "l", "r", "e", "a", "d", "y", " ", "l",
     "a", "u", "n", "c", "h", "e", "d" >>
MsgExistsUpper ==
  << "A", "L", "R", "E", "A", "D", "Y", " ", "E", "X", "I", "S", "T", "S", ":",
     " ", "w", "a", "n" >>
MsgExistsMixed ==
  << "u", "i", "d", " ", "A", "l", "r", "e", "a", "d", "y", " ", "E", "x", "i",
     "s", "t", "s" >>
MsgOom ==
  << "C", "U", "D", "A", " ", "o", "u", "t", " ", "o", "f", " ", "m", "e", "m",
     "o", "r", "y" >>
MsgAlready == << "a", "l", "r", "e", "a", "d", "y", " ", "g", "o", "n", "e" >>

LaunchMessages == {MsgLaunched, MsgExistsUpper, MsgExistsMixed, MsgOom, MsgAlready}

NoLaunch ==
  [model_name |-> None, fallback_model |-> None, calls |-> <<>>, message |-> None,
   fallback_reply |-> None]

NoStop == [found |-> "none", term |-> 0, kill |-> 0, raised |-> FALSE]

MInit ==
  /\ mpc = "start_server" /\ auto_launch = FALSE /\ server_proc = "none"
  /\ installed = FALSE /\ pending = "none" /\ exitKind = "none" /\ signals = 0
  /\ wpc = "idle" /\ clock = 0 /\ deadline = 0 /\ status = -1 /\ okSeen = FALSE
  /\ polledAt = 0
  /\ s3 = "none" /\ launch = NoLaunch /\ lm = "none" /\ lmError = None
  /\ termSent = 0 /\ killSent = 0 /\ stopCalls = 0 /\ stopSends = 0
  /\ lastStop = NoStop

\* ------------------------------------------------------- wait_for_server
\* what a poll of /v1/models sees: an HTTP status, or 0 for a transport error
PollReplies == {0, 200, 404, 499, 500, 503}

\* IsReady with the bound of the client errors
IsReady_below_400(reply) == reply # 0 /\ reply < 400

\* `if response.status_code < 500`, for a reply that is a response
IsReady(reply) == reply # 0 /\ reply < 500

\* one turn of the loop up to the sleep: the loop test, requests.get, the
\* status test; past the deadline, the RuntimeError
WaitPoll ==
  /\ mpc = "wait_for_server" /\ wpc = "poll"
  /\ IF clock < deadline
     THEN \E took \in 0..REQUEST_TIMEOUT, reply \in PollReplies :
            /\ clock' = clock + took
            /\ polledAt' = clock
            /\ status' = reply
            /\ okSeen' = (okSeen \/ (reply \in 1..499))
            /\ wpc' = IF IsReady(reply) THEN "returned" ELSE "sleep"
     ELSE /\ wpc' = "raised"
          /\ UNCHANGED << clock, status, okSeen, polledAt >>
  /\ UNCHANGED << deadline, mainvars, server_proc, launchvars, stopvars >>
  /\ UNCHANGED << hvars, pvars >>

\* `time.sleep(interval)`
WaitSleep ==
  /\ mpc = "wait_for_server" /\ wpc = "sleep"
  /\ clock' = clock + INTERVAL
  /\ wpc' = "poll"
  /\ UNCHANGED << deadline, status, okSeen, polledAt, mainvars, server_proc,
                  launchvars, stopvars >>
  /\ UNCHANGED << hvars, pvars >>

\* ------------------------------------------------------- ensure_s3_model
\* what the object store holds for the sync: everything needed, or the first
\* thing that goes wrong
S3Stores ==
  {"ok", "missing_keys", "head_error", "list_error", "empty", "download_error"}

\* ensure_s3_model as launch_models sees it: "skipped" when the sync is
\* disabled, "ok" when the sync completed, else the error it raises.  The
\* steps that lead to each outcome are SyncBegin .. SyncDownload below.
ensure_s3_model(enable, bucket, endpoint, store) ==
  IF ~parse_bool(IF enable = None THEN <<"1">> ELSE enable[1])
  THEN "skipped"
  ELSE IF ~IsTruthy(bucket) \/ ~IsTruthy(endpoint)
  THEN "config_error"
  ELSE store

\* S3Returned with the sync's error dropped
S3Returned_always(r) == TRUE

\* ensure_s3_model returned rather than raised
S3Returned(r) == r \in {"skipped", "ok"}

\* ------------------------------------------------------- launch_models
\* IsAlreadyRunning without the lower()
IsAlreadyRunning_cased(message) ==
  \/ Contains(message, already_launched)
  \/ Contains(message, already_exists)

\* `"already launched" in message.lower() or "already exists" in message.lower()`
IsAlreadyRunning(message) ==
  \/ Contains(Lower(message), already_launched)
  \/ Contains(Lower(message), already_exists)

\* UseFallback without the comparison of the names
UseFallback_any(fallback_model, model_name) == IsTruthy(fallback_model)

\* `fallback_model and fallback_model != launch_kwargs["model_name"]`
UseFallback(fallback_model, model_name) ==
  IsTruthy(fallback_model) /\ fallback_model[1] # model_name

\* launch_models raises error e: main's try block is left for its except
LaunchModelsRaises(e) ==
  /\ lm' = "raised"
  /\ lmError' = Some(e)
  /\ pending' = "error"
  /\ mpc' = "except_stop"

\* launch_models returns: main goes on to server_proc.wait()
LaunchModelsReturns ==
  /\ lm' = "returned"
  /\ mpc' = "proc_wait"
  /\ UNCHANGED << lmError, pending >>

\* `ensure_s3_model()` at the head of launch_models, then wait_for_server
\* is entered: `deadline = time.time() + timeout`
MEnsureS3 ==
  /\ mpc = "ensure_s3_model"
  /\ \E enable \in {None, Some(<<"0">>)},
        bucket \in {None, Some(<<"b">>)},
        endpoint \in {None, Some(<<>>), Some(<<"e">>)},
        store \in S3Stores :
       LET r == ensure_s3_model(enable, bucket, endpoint, store)
       IN /\ s3' = r
          /\ IF S3Returned(r)
             THEN /\ mpc' = "wait_for_server"
                  /\ wpc' = "poll"
                  /\ deadline' = clock + TIMEOUT
                  /\ UNCHANGED << lm, lmError, pending >>
             ELSE /\ LaunchModelsRaises([by |-> "ensure_s3_model", message |-> <<>>])
                  /\ UNCHANGED << wpc, deadline >>
  /\ UNCHANGED << auto_launch, installed, exitKind, signals, server_proc, clock,
                  status, okSeen, polledAt, launch, stopvars >>
  /\ UNCHANGED << hvars, pvars >>

\* wait_for_server has ended, its locals are gone: launch_models goes on, or
\* the RuntimeError leaves launch_models
MAfterWait ==
  /\ mpc = "wait_for_server" /\ wpc \in {"returned", "raised"}
  /\ IF wpc = "returned"
     THEN /\ mpc' = "launch_primary"
          /\ UNCHANGED << lm, lmError, pending >>
     ELSE LaunchModelsRaises([by |-> "wait_for_server", message |-> <<>>])
  /\ clock' = 0 /\ deadline' = 0 /\ status' = -1 /\ okSeen' = FALSE
  /\ polledAt' = 0
  /\ UNCHANGED << auto_launch, installed, exitKind, signals, server_proc, wpc,
                  s3, launch, stopvars >>
  /\ UNCHANGED << hvars, pvars >>

\* the primary launch and the except clause up to the fallback's call:
\* build_launch_kwargs' model_name, VIDEO_FALLBACK_MODEL, try_launch
LaunchPrimary ==
  /\ mpc = "launch_primary"
  /\ \E name \in {None, Some(OtherModelName)},
        fallback_model \in {None, Some(<<>>), Some(DefaultModelName),
                            Some(OtherModelName)},
        reply \in {None} \cup {Some(m) : m \in LaunchMessages} :
       LET model_name == IF name = None THEN DefaultModelName ELSE name[1]
       IN /\ launch' = [model_name |-> Some(model_name),
                        fallback_model |-> fallback_model,
                        calls |-> << model_name >>,
                        message |-> reply,
                        fallback_reply |-> None]
          /\ IF reply = None
             THEN LaunchModelsReturns
             ELSE IF IsAlreadyRunning(reply[1])
             THEN LaunchModelsReturns
             ELSE IF UseFallback(fallback_model, model_name)
             THEN /\ mpc' = "launch_fallback"
                  /\ UNCHANGED << lm, lmError, pending >>
             ELSE LaunchModelsRaises([by |-> "primary", message |-> reply[1]])
  /\ UNCHANGED << auto_launch, installed, exitKind, signals, server_proc,
                  waitvars, s3, stopvars >>
  /\ UNCHANGED << hvars, pvars >>

\* LaunchFallback with the fallback's error classified like the primary's
LaunchFallback_classified ==
  /\ mpc = "launch_fallback"
  /\ \E reply \in {None} \cup {Some(m) : m \in LaunchMessages} :
       /\ launch' = [launch EXCEPT !.calls = Append(@, launch.fallback_model[1]),
                                   !.fallback_reply = reply]
       /\ IF reply = None \/ IsAlreadyRunning(reply[1])
          THEN LaunchModelsReturns
          ELSE LaunchModelsRaises([by |-> "fallback", message |-> reply[1]])
  /\ UNCHANGED << auto_launch, installed, exitKind, signals, server_proc,
                  waitvars, s3, stopvars >>
  /\ UNCHANGED << hvars, pvars >>

\* `launch_kwargs["model_name"] = fallback_model; uid = try_launch(...)`:
\* whatever it raises leaves launch_models
LaunchFallback ==
  /\ mpc = "launch_fallback"
  /\ \E reply \in {None} \cup {Some(m) : m \in LaunchMessages} :
       /\ launch' = [launch EXCEPT !.calls = Append(@, launch.fallback_model[1]),
                                   !.fallback_reply = reply]
       /\ IF reply = None
          THEN LaunchModelsReturns
          ELSE LaunchModelsRaises([by |-> "fallback", message |-> reply[1]])
  /\ UNCHANGED << auto_launch, installed, exitKind, signals, server_proc,
                  waitvars, s3, stopvars >>
  /\ UNCHANGED << hvars, pvars >>

\* ------------------------------------------------------------------ main
\* the head of main: AUTO_LAUNCH_MODEL, configure_xinference_home,
\* start_server
MStart ==
  /\ mpc = "start_server"
  /\ \E v \in {None, Some(<<"0">>), Some(<<"T", "r", "u", "e">>)} :
       auto_launch' = parse_bool(IF v = None THEN <<"1">> ELSE v[1])
  /\ \/ /\ server_proc' = "running"
        /\ mpc' = "install_signals"
        /\ UNCHANGED exitKind
     \/ /\ mpc' = "exited"                      \* Popen raised
        /\ exitKind' = "error"
        /\ UNCHANGED server_proc
  /\ UNCHANGED << installed, pending, signals, waitvars, launchvars, stopvars >>
  /\ UNCHANGED << hvars, pvars >>

\* signal.signal(SIGTERM, ...), signal.signal(SIGINT, ...); the try block is
\* entered
MInstall ==
  /\ mpc = "install_signals"
  /\ installed' = TRUE
  /\ mpc' = IF auto_launch THEN "ensure_s3_model" ELSE "proc_wait"
  /\ UNCHANGED << auto_launch, pending, exitKind, signals, server_proc, waitvars,
                  launchvars, stopvars >>
  /\ UNCHANGED << hvars, pvars >>

\* `server_proc.wait()` returns once the daemon has ended
MProcWait ==
  /\ mpc = "proc_wait" /\ server_proc = "exited"
  /\ mpc' = "finally_stop"
  /\ UNCHANGED << auto_launch, installed, pending, exitKind, signals,
                  server_proc, waitvars, launchvars, stopvars >>
  /\ UNCHANGED << hvars, pvars >>

\* the head of a stop_server call in main: the test of the handle and
\* terminate()
StopBegin(waitpc, donepc) ==
  /\ stopCalls' = stopCalls + 1
  /\ IF StopIsNoop(server_proc)
     THEN /\ lastStop' = [found |-> server_proc, term |-> 0, kill |-> 0,
                          raised |-> FALSE]
          /\ mpc' = donepc
          /\ UNCHANGED << termSent, stopSends >>
     ELSE \E r \in TerminateResults :
            IF r = "sent"
            THEN /\ lastStop' = [found |-> server_proc, term |-> 1, kill |-> 0,
                                 raised |-> FALSE]
                 /\ termSent' = termSent + 1
                 /\ stopSends' = stopSends + 1
                 /\ mpc' = waitpc
            ELSE /\ lastStop' = [found |-> server_proc, term |-> 0, kill |-> 0,
                          raised |-> FALSE]
                 /\ mpc' = donepc
                 /\ UNCHANGED << termSent, stopSends >>
  /\ UNCHANGED << killSent, server_proc >>

\* the rest of the call: proc.wait(timeout=10) and what follows it; an
\* exception that leaves stop_server takes the place of the one in flight
StopWait(donepc) ==
  /\ \E w \in WaitResults(server_proc) :
       /\ server_proc' = w.state
       /\ killSent' = killSent + w.kill
       /\ lastStop' = [lastStop EXCEPT !.kill = w.kill, !.raised = w.raised]
       /\ pending' = IF w.raised THEN "stop_error" ELSE pending
  /\ mpc' = donepc
  /\ UNCHANGED << termSent, stopCalls, stopSends >>

\* main is left: with the pending exception, or by returning
MainExits ==
  /\ mpc' = "exited"
  /\ exitKind' = IF pending = "none" THEN "return" ELSE pending

\* `except Exception: stop_server(server_proc); raise`
ExceptStop ==
  /\ mpc = "except_stop"
  /\ StopBegin("except_wait", "finally_stop")
  /\ UNCHANGED << auto_launch, installed, pending, exitKind, signals, waitvars,
                  launchvars >>
  /\ UNCHANGED << hvars, pvars >>

ExceptWait ==
  /\ mpc = "except_wait"
  /\ StopWait("finally_stop")
  /\ UNCHANGED << auto_launch, installed, exitKind, signals, waitvars,
                  launchvars >>
  /\ UNCHANGED << hvars, pvars >>

\* `finally: stop_server(server_proc)`
FinallyStop ==
  /\ mpc = "finally_stop"
  /\ stopCalls' = stopCalls + 1
  /\ IF StopIsNoop(server_proc)
     THEN /\ lastStop' = [found |-> server_proc, term |-> 0, kill |-> 0,
                          raised |-> FALSE]
          /\ MainExits
          /\ UNCHANGED << termSent, stopSends >>
     ELSE \E r \in TerminateResults :
            IF r = "sent"
            THEN /\ lastStop' = [found |-> server_proc, term |-> 1, kill |-> 0,
                                 raised |-> FALSE]
                 /\ termSent' = termSent + 1
                 /\ stopSends' = stopSends + 1
                 /\ mpc' = "finally_wait"
                 /\ UNCHANGED exitKind
            ELSE /\ lastStop' = [found |-> server_proc, term |-> 0, kill |-> 0,
                          raised |-> FALSE]
                 /\ MainExits
                 /\ UNCHANGED << termSent, stopSends >>
  /\ UNCHANGED << killSent, server_proc, auto_launch, installed, pending,
                  signals, waitvars, launchvars >>
  /\ UNCHANGED << hvars, pvars >>

FinallyWait ==
  /\ mpc = "finally_wait"
  /\ \E w \in WaitResults(server_proc) :
       /\ server_proc' = w.state
       /\ killSent' = killSent + w.kill
       /\ lastStop' = [lastStop EXCEPT !.kill = w.kill, !.raised = w.raised]
       /\ IF w.raised
          THEN mpc' = "exited" /\ exitKind' = "stop_error"
          ELSE MainExits
  /\ UNCHANGED << termSent, stopCalls, stopSends, auto_launch, installed,
                  pending, signals, waitvars, launchvars >>
  /\ UNCHANGED << hvars, pvars >>

\* a whole call of stop_server, as _handle_signal makes it
StopServerCall ==
  \E r \in StopServerResults(server_proc) :
    /\ lastStop' = [found |-> server_proc, term |-> r.term, kill |-> r.kill,
                 raised |-> r.raised]
    /\ server_proc' = r.state
    /\ termSent' = termSent + r.term
    /\ killSent' = killSent + r.kill
    /\ stopCalls' = stopCalls + 1
    /\ stopSends' = stopSends + (IF r.term + r.kill > 0 THEN 1 ELSE 0)

\* SIGTERM or SIGINT reaches main once the daemon is started.  Before the
\* handlers are installed the signal's default action ends main at once.
\* After, _handle_signal runs stop_server and sys.exit(0): SystemExit leaves
\* the try block through its finally clause, or leaves the finally clause
\* itself when that is where main was.  When stop_server raises, sys.exit is
\* not reached and its exception is raised where main was instead: inside
\* the try block the except clause catches it.
Signal ==
  /\ signals < MaxSignals
  /\ mpc \notin {"start_server", "exited"}
  /\ signals' = signals + 1
  /\ IF ~installed
     THEN /\ mpc' = "exited"
          /\ exitKind' = "signal"
          /\ UNCHANGED << pending, server_proc, stopvars, wpc, lm >>
     ELSE /\ StopServerCall
          /\ wpc' = IF wpc \in {"poll", "sleep"} THEN "aborted" ELSE wpc
          /\ lm' = IF mpc \in {"ensure_s3_model", "wait_for_server",
                               "launch_primary", "launch_fallback"}
                   THEN "aborted" ELSE lm
          /\ LET thrown == IF lastStop'.raised THEN "stop_error" ELSE "exit"
             IN IF mpc \in {"finally_stop", "finally_wait"}
                THEN /\ mpc' = "exited"
                     /\ exitKind' = thrown
                     /\ UNCHANGED pending
                ELSE /\ mpc' = IF thrown = "stop_error"
                                  /\ mpc \notin {"except_stop", "except_wait"}
                               THEN "except_stop" ELSE "finally_stop"
                     /\ pending' = thrown
                     /\ UNCHANGED exitKind
  /\ clock' = 0 /\ deadline' = 0 /\ status' = -1 /\ okSeen' = FALSE
  /\ polledAt' = 0
  /\ UNCHANGED << auto_launch, installed, s3, launch, lmError >>
  /\ UNCHANGED << hvars, pvars >>

\* the daemon ends on its own
DaemonExits ==
  /\ mpc # "exited" /\ server_proc = "running"
  /\ server_proc' = "exited"
  /\ UNCHANGED << mainvars, waitvars, launchvars, stopvars >>
  /\ UNCHANGED << hvars, pvars >>

\* a killed daemon is gone: poll() now answers its return code
DaemonReaped ==
  /\ server_proc = "killed"
  /\ server_proc' = "exited"
  /\ UNCHANGED << mainvars, waitvars, launchvars, stopvars >>
  /\ UNCHANGED << hvars, pvars >>

MNext ==
  \/ MStart
  \/ MInstall
  \/ MEnsureS3
  \/ WaitPoll
  \/ WaitSleep
  \/ MAfterWait
  \/ LaunchPrimary
  \/ LaunchFallback
  \/ MProcWait
  \/ ExceptStop
  \/ ExceptWait
  \/ FinallyStop
  \/ FinallyWait
  \/ Signal
  \/ DaemonExits
  \/ DaemonReaped

\* ============================================ bootstrap.py: ensure_s3_model
MaxListed == 3         \* objects the listing under the prefix returns

Slash == "/"

\* str.lstrip("/")
RECURSIVE LStripSlash(_)
LStripSlash(s) == IF s # <<>> /\ Head(s) = Slash THEN LStripSlash(Tail(s)) ELSE s

\* str.endswith("/")
EndsWithSlash(s) == s # <<>> /\ s[Len(s)] = Slash

\* str.startswith(p)
StartsWith(s, p) == Len(p) <= Len(s) /\ SubSeq(s, 1, Len(p)) = p

\* str.split(","): cur is the piece being read, acc the pieces read so far
RECURSIVE SplitComma(_, _, _)
SplitComma(s, cur, acc) ==
  IF s = <<>> THEN Append(acc, cur)
  ELSE IF Head(s) = "," THEN SplitComma(Tail(s), <<>>, Append(acc, cur))
  ELSE SplitComma(Tail(s), Append(cur, Head(s)), acc)

\* `[k.strip() for k in required_keys_env.split(",") if k.strip()]`
RECURSIVE StripNonEmpty(_)
StripNonEmpty(pieces) ==
  IF pieces = <<>> THEN <<>>
  ELSE IF Strip(Head(pieces)) = <<>> THEN StripNonEmpty(Tail(pieces))
  ELSE << Strip(Head(pieces)) >> \o StripNonEmpty(Tail(pieces))

required_keys(required_keys_env) ==
  StripNonEmpty(SplitComma(required_keys_env, <<>>, <<>>))

\* `prefix if not prefix or prefix.endswith("/") else prefix + "/"`, on the
\* prefix with its leading slashes stripped
normalized_prefix(prefix_env) ==
  LET prefix == LStripSlash(prefix_env)
  IN IF prefix = <<>> \/ EndsWithSlash(prefix) THEN prefix
     ELSE Append(prefix, Slash)

\* full_key, the nested function of ensure_s3_model
full_key(np, key) ==
  IF StartsWith(key, np) \/ np = <<>> THEN key ELSE np \o LStripSlash(key)

\* `key[len(normalized_prefix):].lstrip("/") if normalized_prefix else key`
rel_of(np, key) ==
  IF np # <<>> THEN LStripSlash(SubSeq(key, Len(np) + 1, Len(key))) ELSE key

\* IsDirectoryMarker with no key taken for a marker
IsDirectoryMarker_never(key) == FALSE

\* `if key.endswith("/"): continue`
IsDirectoryMarker(key) == EndsWithSlash(key)

\* keys_to_fetch: the (key, rel) pairs of the listed keys that are no
\* directory markers, in listing order
RECURSIVE keys_to_fetch(_, _)
keys_to_fetch(np, listing) ==
  IF listing = <<>> THEN <<>>
  ELSE IF IsDirectoryMarker(Head(listing)) THEN keys_to_fetch(np, Tail(listing))
  ELSE << [key |-> Head(listing), rel |-> rel_of(np, Head(listing))] >>
       \o keys_to_fetch(np, Tail(listing))

\* HeadIsMissing with no status taken for a missing key
HeadIsMissing_never(code) == FALSE

\* head_object raised ClientError with HTTPStatusCode 404
HeadIsMissing(code) == code = 404

\* SkipsDownload without the skip_existing flag
SkipsDownload_exists(skip_existing, exists) == exists

\* `if skip_existing and os.path.exists(target): continue`
SkipsDownload(skip_existing, exists) == skip_existing /\ exists

\* what head_object answers: 200 found, else the status of the ClientError
HeadReplies == {200, 404, 403}

\* the keys the bucket may hold under the normalized prefix np
StoreKeys(np) ==
  { np \o <<"a">>, np \o <<"b">>, np \o <<Slash, "a">>, np \o <<"d", Slash>> }
  \cup (IF np = <<>> THEN {} ELSE {np})

\* what the paginator yields: the keys of all pages, each key once
Listings(np) ==
  { q \in UNION { [1..n -> StoreKeys(np)] : n \in 0..MaxListed } :
      \A i, j \in DOMAIN q : i # j => q[i] # q[j] }

\* the local files the sync may find in place, by their path under local_path
LocalFiles == SUBSET { <<"a">>, <<"b">> }

\* the environment ensure_s3_model reads
SyncEnvs ==
  [ ENABLE_S3_MODEL : {None, Some(<<"0">>)},
    MODEL_S3_BUCKET : {None, Some(<<"b">>)},
    MODEL_S3_ENDPOINT : {None, Some(<<>>), Some(<<"e">>)},
    MODEL_S3_PREFIX : {None, Some(<<"m">>), Some(<<Slash, "m", Slash>>)},
    MODEL_REQUIRE_KEYS :
      {None, Some(<<"a">>),
       Some(<<" ", "a", " ", ",", " ", ",", "m", Slash, "b">>),
       Some(<<Slash, "a", ",", "b", ",", "c">>)},
    MODEL_SKIP_EXISTING : {None, Some(<<"0">>)} ]

NoSync ==
  [pc |-> "idle", outcome |-> "none", prefix |-> <<>>, required |-> <<>>,
   skip_existing |-> FALSE, checked |-> <<>>, missing |-> <<>>,
   listed |-> FALSE, listing |-> <<>>, fetch |-> <<>>, log |-> <<>>,
   files |-> {}]

\* ensure_s3_model ends: raising e, or returning ("skipped", "ok")
SyncEnds(rec, e) == [rec EXCEPT !.pc = "done", !.outcome = e]

\* the head of ensure_s3_model: the environment is read, the sync is skipped
\* when disabled, bucket and endpoint are required, the prefix is normalized
\* and the required keys are parsed
SyncBegin ==
  /\ sync.pc = "idle"
  /\ \E env \in SyncEnvs, files \in LocalFiles :
       LET rec == [NoSync EXCEPT
                     !.prefix = normalized_prefix(getenv_default(env, "MODEL_S3_PREFIX", <<>>)),
                     !.required = required_keys(getenv_default(env, "MODEL_REQUIRE_KEYS", <<>>)),
                     !.skip_existing =
                        parse_bool(getenv_default(env, "MODEL_SKIP_EXISTING", <<"1">>)),
                     !.files = files]
       IN sync' =
            IF ~parse_bool(getenv_default(env, "ENABLE_S3_MODEL", <<"1">>))
            THEN SyncEnds(NoSync, "skipped")
            ELSE IF ~IsTruthy(getenv(env, "MODEL_S3_BUCKET"))
                    \/ ~IsTruthy(getenv(env, "MODEL_S3_ENDPOINT"))
            THEN SyncEnds(NoSync, "config_error")
            ELSE [rec EXCEPT !.pc = IF rec.required # <<>> THEN "head" ELSE "list"]
  /\ UNCHANGED << hvars, mvars, osenv, launch_kwargs >>

\* one turn of the loop over required_keys: head_object on full_key(key); a
\* 404 is collected, any other ClientError is re-raised; after the last key,
\* `if missing: raise RuntimeError(... missing keys ...)`
SyncHead ==
  /\ sync.pc = "head"
  /\ \E code \in HeadReplies :
       LET i == Len(sync.checked) + 1
           key_to_check == full_key(sync.prefix, sync.required[i])
           checked == Append(sync.checked, [key |-> key_to_check, code |-> code])
           missing == IF HeadIsMissing(code)
                      THEN Append(sync.missing, key_to_check)
                      ELSE sync.missing
           rec == [sync EXCEPT !.checked = checked, !.missing = missing]
       IN sync' =
            IF code # 200 /\ ~HeadIsMissing(code)
            THEN SyncEnds(rec, "head_error")
            ELSE IF i < Len(sync.required) THEN rec
            ELSE IF missing # <<>> THEN SyncEnds(rec, "missing_keys")
            ELSE [rec EXCEPT !.pc = "list"]
  /\ UNCHANGED << hvars, mvars, osenv, launch_kwargs >>

\* the paginated listing under the normalized prefix, keys_to_fetch, and
\* `if not keys_to_fetch: raise RuntimeError(... no objects found ...)`
SyncList ==
  /\ sync.pc = "list"
  /\ \/ sync' = SyncEnds([sync EXCEPT !.listed = TRUE], "list_error")
     \/ \E listing \in Listings(sync.prefix) :
          LET fetch == keys_to_fetch(sync.prefix, listing)
              rec == [sync EXCEPT !.listed = TRUE, !.listing = listing,
                                  !.fetch = fetch]
          IN sync' = IF fetch = <<>> THEN SyncEnds(rec, "empty")
                     ELSE [rec EXCEPT !.pc = "download"]
  /\ UNCHANGED << hvars, mvars, osenv, launch_kwargs >>

\* one turn of the loop over keys_to_fetch: makedirs, the test of
\* skip_existing and of the target, download_file.  What makedirs or
\* download_file raises leaves ensure_s3_model; after the last key the sync
\* is complete.
SyncDownload ==
  /\ sync.pc = "download"
  /\ LET i == Len(sync.log) + 1
         entry == sync.fetch[i]
         exists == entry.rel \in sync.files
         logged(called) ==
           [sync EXCEPT !.log = Append(@, [key |-> entry.key, rel |-> entry.rel,
                                           existed |-> exists, called |-> called])]
         goes_on(rec) == IF i < Len(sync.fetch) THEN rec ELSE SyncEnds(rec, "ok")
     IN \/ sync' = SyncEnds(sync, "download_error")          \* makedirs raised
        \/ /\ SkipsDownload(sync.skip_existing, exists)
           /\ sync' = goes_on(logged(FALSE))
        \/ /\ ~SkipsDownload(sync.skip_existing, exists)
           /\ \/ sync' = goes_on([logged(TRUE) EXCEPT !.files = @ \cup {entry.rel}])
              \/ sync' = SyncEnds(logged(TRUE), "download_error")
  /\ UNCHANGED << hvars, mvars, osenv, launch_kwargs >>

\* ======================================== bootstrap.py: build_launch_kwargs
MaxEnvSet == 3         \* variables present in the environment

\* optional_fields and bool_fields: source variable, keyword argument
optional_fields ==
  { [env_key |-> "VIDEO_MODEL_ENGINE", arg_key |-> "model_engine"],
    [env_key |-> "VIDEO_MODEL_FORMAT", arg_key |-> "model_format"],
    [env_key |-> "VIDEO_MODEL_UID", arg_key |-> "model_uid"],
    [env_key |-> "VIDEO_MODEL_PATH", arg_key |-> "model_path"],
    [env_key |-> "VIDEO_SIZE_IN_BILLIONS", arg_key |-> "size_in_billions"],
    [env_key |-> "VIDEO_QUANTIZATION", arg_key |-> "quantization"] }

bool_fields ==
  { [env_key |-> "VIDEO_LAYERWISE_CAST", arg_key |-> "layerwise_cast"],
    [env_key |-> "VIDEO_CPU_OFFLOAD", arg_key |-> "cpu_offload"],
    [env_key |-> "VIDEO_GROUP_OFFLOAD", arg_key |-> "group_offload"],
    [env_key |-> "VIDEO_USE_STREAM", arg_key |-> "use_stream"] }

DefaultModelType == << "v", "i", "d", "e", "o" >>

\* the variables build_launch_kwargs reads
EnvKeys ==
  {"VIDEO_MODEL_NAME", "VIDEO_MODEL_TYPE"}
  \cup {f.env_key : f \in optional_fields} \cup {f.env_key : f \in bool_fields}

\* the values a variable that is present may have
EnvValues == { <<>>, <<"w">>, <<"O", "N">> }

NoEnv == [k \in EnvKeys |-> None]

\* build_launch_kwargs: model_name and model_type with their defaults, each
\* optional string field whose variable is truthy, each boolean field whose
\* variable is present, parsed
build_launch_kwargs(env) ==
  LET strs == {f \in optional_fields : IsTruthy(getenv(env, f.env_key))}
      bools == {f \in bool_fields : getenv(env, f.env_key) # None}
      source(fields, k) == (CHOOSE f \in fields : f.arg_key = k).env_key
  IN [k \in {"model_name", "model_type"}
            \cup {f.arg_key : f \in strs} \cup {f.arg_key : f \in bools} |->
        IF k = "model_name"
        THEN getenv_default(env, "VIDEO_MODEL_NAME", DefaultModelName)
        ELSE IF k = "model_type"
        THEN getenv_default(env, "VIDEO_MODEL_TYPE", DefaultModelType)
        ELSE IF k \in {f.arg_key : f \in strs}
        THEN getenv(env, source(strs, k))[1]
        ELSE parse_bool(getenv(env, source(bools, k))[1])]

\* the environment the process is started in: one more variable is present
SetEnv ==
  /\ launch_kwargs = None
  /\ Cardinality({k \in EnvKeys : osenv[k] # None}) < MaxEnvSet
  /\ \E k \in EnvKeys, v \in EnvValues :
       /\ osenv[k] = None
       /\ osenv' = [osenv EXCEPT ![k] = Some(v)]
  /\ UNCHANGED << hvars, mvars, sync, launch_kwargs >>

\* a call of build_launch_kwargs
BuildKwargs ==
  /\ launch_kwargs = None
  /\ launch_kwargs' = Some(build_launch_kwargs(osenv))
  /\ UNCHANGED << hvars, mvars, sync, osenv >>

\* no sync and no build_launch_kwargs under way
PIdle == sync = NoSync /\ osenv = NoEnv /\ launch_kwargs = None

\* ============================================================ the specs
vars == << hvars, mvars, pvars >>

\* the worker before its first job, with no bootstrap main running
HIdle ==
  /\ _initialized = FALSE /\ _init_lock = 0 /\ _server_proc = 0
  /\ _xinference_endpoint = FALSE
  /\ environ = [AUTO_LAUNCH_MODEL |-> None, VIDEO_MODEL_UID |-> None,
                API_HTTP_TIMEOUT |-> None]
  /\ daemons = <<>>
  /\ pc = [t \in Threads |-> "idle"]
  /\ ret = NoRet /\ jobs = 0 /\ calledReady = [t \in Threads |-> FALSE] /\ cleaned = FALSE
  /\ startCount = 0 /\ waitCount = 0 /\ launchCount = 0
  /\ bootFailures = 0 /\ bootSuccesses = 0

Init == HInit /\ MInit /\ PIdle

Next == HNext

Spec == Init /\ [][Next]_vars

InitMain == MInit /\ HIdle /\ PIdle

NextMain == MNext

SpecMain == InitMain /\ [][NextMain]_vars

\* wait_for_server alone, as launch_models enters it
InitWait ==
  /\ HIdle /\ PIdle
  /\ mpc = "wait_for_server" /\ auto_launch = TRUE /\ server_proc = "running"
  /\ installed = TRUE /\ pending = "none" /\ exitKind = "none" /\ signals = 0
  /\ wpc = "poll" /\ clock = 0 /\ deadline = clock + TIMEOUT
  /\ status = -1 /\ okSeen = FALSE /\ polledAt = 0
  /\ s3 = "ok" /\ launch = NoLaunch /\ lm = "none" /\ lmError = None
  /\ termSent = 0 /\ killSent = 0 /\ stopCalls = 0 /\ stopSends = 0
  /\ lastStop = NoStop

NextWait == WaitPoll \/ WaitSleep

\* the thread that runs wait_for_server keeps running
SpecWait == InitWait /\ [][NextWait]_vars /\ WF_vars(NextWait)

\* stop_server called again and again on one handle, absent or present
MaxStopCalls == 4

InitStop ==
  /\ HIdle /\ PIdle
  /\ mpc = "stop_server" /\ auto_launch = FALSE
  /\ server_proc \in {"none", "running", "exited"}
  /\ installed = FALSE /\ pending = "none" /\ exitKind = "none" /\ signals = 0
  /\ wpc = "idle" /\ clock = 0 /\ deadline = 0 /\ status = -1 /\ okSeen = FALSE
  /\ polledAt = 0
  /\ s3 = "none" /\ launch = NoLaunch /\ lm = "none" /\ lmError = None
  /\ termSent = 0 /\ killSent = 0 /\ stopCalls = 0 /\ stopSends = 0
  /\ lastStop = NoStop

StopCaller ==
  /\ mpc = "stop_server" /\ stopCalls < MaxStopCalls
  /\ StopServerCall
  /\ UNCHANGED << mainvars, waitvars, launchvars, hvars, pvars >>

NextStop == StopCaller \/ DaemonExits \/ DaemonReaped

SpecStop == InitStop /\ [][NextStop]_vars

\* ensure_s3_model alone
InitSync == HIdle /\ MInit /\ PIdle

NextSync == SyncBegin \/ SyncHead \/ SyncList \/ SyncDownload

SpecSync == InitSync /\ [][NextSync]_vars

\* build_launch_kwargs alone, under each environment of the process
InitKwargs == HIdle /\ MInit /\ PIdle

NextKwargs == SetEnv \/ BuildKwargs

SpecKwargs == InitKwargs /\ [][NextKwargs]_vars

\* ============================================================ the claims
\* threads inside the try block of _init_runtime, past start_server
Booting == {t \in Threads : pc[t] \in {"wait_for_server", "launch_models"}}

\* C1: with concurrent first jobs and no boot step raising, start_server,
\* wait_for_server and launch_models each run once in total
C1_InitOnce ==
  bootFailures = 0 => startCount <= 1 /\ waitCount <= 1 /\ launchCount <= 1

\* C2: a boot sequence that raises leaves _initialized false and is not
\* remembered: the flag is set only by a boot sequence that ran to its end,
\* no job gets past _init_runtime before that, and every attempt, a retry
\* included, begins again with start_server
C2_FailedInitRetried ==
  /\ _initialized <=> bootSuccesses > 0
  /\ \A t \in Threads : pc[t] = "body" => bootSuccesses > 0
  /\ ret.error = "init_failed" /\ bootSuccesses = 0 => ~ret.init
  /\ startCount >= bootFailures + bootSuccesses + Cardinality(Booting)

\* a job retries the boot after an earlier job's boot has failed
C2_Witness ==
  /\ bootFailures >= 1 /\ ~_initialized /\ ret.error = "init_failed"
  /\ startCount >= 2
  /\ \E t \in Threads : pc[t] = "wait_for_server"

\* C3: handler never raises to its caller
C3_NeverRaises == ret.kind # "raised"

\* C4: the ready flag of a returned error object is the initialization state
\* at the time the object is returned
C4_ReadyReflectsInit == ret.kind = "error" => ret.ready = ret.init

\* the primary launch failed with an already-launched / already-exists
\* message, in whatever letter case
PrimaryAlready ==
  /\ launch.message # None
  /\ \/ Contains(Lower(launch.message[1]), already_launched)
     \/ Contains(Lower(launch.message[1]), already_exists)

\* the primary launch failed with another message
PrimaryUnrelated == launch.message # None /\ ~PrimaryAlready

\* C5: a primary failure saying already launched / already exists, in any
\* letter case, is a success: launch_models returns, no fallback is tried
C5_AlreadyIsSuccess ==
  PrimaryAlready =>
    /\ launch.calls = << launch.model_name[1] >>
    /\ lm = "returned" /\ lmError = None

\* an upper-case ALREADY EXISTS with a different fallback configured
C5_Witness ==
  /\ launch.message = Some(MsgExistsUpper)
  /\ launch.fallback_model = Some(OtherModelName)
  /\ launch.model_name = Some(DefaultModelName)
  /\ lm = "returned"

\* C6: an unrelated primary failure with the fallback unset, empty or equal
\* to the primary name: no fallback attempt, the original error propagates
C6_NoFallbackPropagates ==
  /\ PrimaryUnrelated
  /\ \/ launch.fallback_model \in {None, Some(<<>>)}
     \/ launch.fallback_model = launch.model_name
  =>
    /\ launch.calls = << launch.model_name[1] >>
    /\ lm = "raised"
    /\ lmError = Some([by |-> "primary", message |-> launch.message[1]])

\* the fallback names the primary model, and the primary ran out of memory
C6_Witness ==
  /\ launch.message = Some(MsgOom)
  /\ launch.fallback_model = Some(DefaultModelName)
  /\ launch.model_name = Some(DefaultModelName)
  /\ lm = "raised"

\* C7 as claimed: a no-op on an absent handle or an exited process, and so
\* over any number of calls at most one call signals the daemon
C7_AtMostOnce ==
  /\ lastStop.found \in {"none", "exited"} => lastStop.term = 0 /\ lastStop.kill = 0
  /\ stopSends <= 1

\* C7: stop_server sends nothing when the handle is absent or the process
\* has exited; a call on a process not yet seen exited sends terminate at
\* most once, and kill only after its own terminate
C7_NoopWhenAbsentOrExited ==
  /\ lastStop.found \in {"none", "exited"} => lastStop.term = 0 /\ lastStop.kill = 0
  /\ lastStop.term <= 1 /\ lastStop.kill <= lastStop.term
  /\ server_proc = "none" => termSent = 0 /\ killSent = 0
  /\ termSent <= stopCalls /\ killSent <= termSent

\* a further call finds the process exited, after a call that terminated it
C7_Witness ==
  /\ stopCalls >= 2 /\ termSent = 1
  /\ lastStop = [found |-> "exited", term |-> 0, kill |-> 0, raised |-> FALSE]

\* C8: whenever main has ended, the daemon is no longer running, at most one
\* stop_server call has signalled it, and a startup error that no signal
\* overtook is what main raised
C8_TerminatedOnceOnExit ==
  mpc = "exited" =>
    /\ server_proc # "running"
    /\ stopSends <= 1
    /\ lmError # None /\ signals = 0 => exitKind = "error"

\* C9, the safety part: wait_for_server returns exactly when a poll begun
\* before the deadline saw a status below 500; a failed poll leads to the
\* sleep; the error is raised only past the deadline
C9_WaitInv ==
  /\ wpc = "returned" <=> okSeen
  /\ wpc = "returned" => status \in 1..499 /\ polledAt < deadline
  /\ wpc = "sleep" => ~(status \in 1..499) /\ polledAt < deadline
  /\ wpc = "raised" => ~okSeen /\ clock >= deadline

\* C9: the above, and the wait ends
C9_WaitForServer == []C9_WaitInv /\ <>(wpc \in {"returned", "raised"})

\* the wait returns on a 404 after polls that failed
C9_Witness == wpc = "returned" /\ status = 404 /\ clock > INTERVAL + REQUEST_TIMEOUT

\* C10: launch_model is called only after ensure_s3_model has returned and
\* wait_for_server has then returned; if either raised, it is never called
C10_SyncBeforeLaunch ==
  /\ launch.calls # <<>> => s3 \in {"skipped", "ok"} /\ wpc = "returned"
  /\ s3 \notin {"none", "skipped", "ok"} \/ wpc = "raised" => launch.calls = <<>>

\* a launch after a completed sync and a successful wait
C10_Witness == launch.calls # <<>> /\ s3 = "ok" /\ wpc = "returned"

\* the listing under the prefix was read and held nothing but directory
\* markers
ListedNothing ==
  /\ sync.listed /\ sync.outcome # "list_error"
  /\ \A i \in DOMAIN sync.listing :
       sync.listing[i][Len(sync.listing[i])] = "/"

\* C11: when the listing under the normalized prefix yields no object other
\* than directory markers, ensure_s3_model ends with the no-assets error and
\* has made no download call; it does not return
C11_NoAssets ==
  ListedNothing => sync.pc = "done" /\ sync.outcome = "empty" /\ sync.log = <<>>

\* a listing of directory markers only has ended in the no-assets error
C11_Witness == ListedNothing /\ sync.listing # <<>> /\ sync.outcome = "empty"

\* C12 as stated: once ensure_s3_model has ended, every listed key was
\* reached in listing order, with no download call when skip_existing is set
\* and the target existed, and exactly one download call otherwise
C12_EveryKeyOnce ==
  sync.pc = "done" /\ sync.fetch # <<>> =>
    /\ Len(sync.log) = Len(sync.fetch)
    /\ \A i \in DOMAIN sync.log :
         /\ sync.log[i].key = sync.fetch[i].key
         /\ sync.log[i].called <=> ~(sync.skip_existing /\ sync.log[i].existed)

\* C12, amended: every key the loop has reached was taken in listing order,
\* with no download call when skip_existing is set and the target existed
\* and one download call otherwise; a sync that returns has reached every
\* listed key
C12_SkipExisting ==
  /\ Len(sync.log) <= Len(sync.fetch)
  /\ \A i \in DOMAIN sync.log :
       /\ sync.log[i].key = sync.fetch[i].key
       /\ sync.log[i].called <=> ~(sync.skip_existing /\ sync.log[i].existed)
  /\ sync.outcome = "ok" => Len(sync.log) = Len(sync.fetch)

\* a completed sync that skipped one key and downloaded another
C12_Witness ==
  /\ sync.outcome = "ok" /\ sync.skip_existing
  /\ \E i, j \in DOMAIN sync.log :
       /\ sync.log[i].existed /\ ~sync.log[i].called
       /\ ~sync.log[j].existed /\ sync.log[j].called

\* C13: a job with image_url set goes through the URL fetch only, whether or
\* not image_base64 is supplied too; when the fetch fails the handler returns
\* the input_error object and has sent no inference request
C13_UrlFirst ==
  ret.job.image_url =>
    /\ ret.loader = "url"
    /\ ~ret.loaded =>
         ret.kind = "error" /\ ret.error = "input_error" /\ ~ret.posted

\* a job with both image fields whose fetch failed
C13_Witness ==
  /\ ret.job.image_url /\ ret.job.image_base64
  /\ ~ret.loaded /\ ret.error = "input_error"

\* C14: build_launch_kwargs leaves out an optional string field exactly when
\* its variable is absent or empty, and a boolean field exactly when its
\* variable is absent; a boolean field that is present is true exactly when
\* the lower-cased value is one of 1, true, t, yes, y, on
C14_KwargsFields ==
  launch_kwargs # None =>
    LET kw == launch_kwargs[1]
    IN /\ \A f \in optional_fields :
            f.arg_key \notin DOMAIN kw
              <=> (osenv[f.env_key] = None \/ osenv[f.env_key] = Some(<<>>))
       /\ \A f \in bool_fields :
            /\ f.arg_key \notin DOMAIN kw <=> osenv[f.env_key] = None
            /\ f.arg_key \in DOMAIN kw =>
                 kw[f.arg_key] =
                   (Lower(osenv[f.env_key][1]) \in
                      { <<"1">>, <<"t", "r", "u", "e">>, <<"t">>,
                        <<"y", "e", "s">>, <<"y">>, <<"o", "n">> })

\* the dict built from a boolean variable set to "ON", a boolean variable
\* set to the empty string and a string variable set to the empty string
C14_Witness ==
  /\ launch_kwargs # None
  /\ \E f, g \in bool_fields, h \in optional_fields :
       /\ osenv[f.env_key] = Some(<<"O", "N">>)
       /\ launch_kwargs[1][f.arg_key] = TRUE
       /\ osenv[g.env_key] = Some(<<>>)
       /\ launch_kwargs[1][g.arg_key] = FALSE
       /\ osenv[h.env_key] = Some(<<>>)
       /\ h.arg_key \notin DOMAIN launch_kwargs[1]

\* threads inside the try block of _init_runtime
InTry ==
  {t \in Threads : pc[t] \in {"start_server", "wait_for_server", "launch_models"}}

\* C15: _init_lock serializes the boot sequence: no two threads are inside
\* start_server, wait_for_server, launch_models at the same time
C15_LockSerializes == Cardinality(InTry) <= 1

\* C16: launch_models makes at most two launch_model calls, the primary and
\* then one with the fallback's name; what the fallback call raises is what
\* launch_models raises, an already-launched error included
C16_AtMostTwoLaunches ==
  /\ Len(launch.calls) <= 2
  /\ Len(launch.calls) = 2 =>
       /\ launch.calls[1] = launch.model_name[1]
       /\ launch.calls[2] = launch.fallback_model[1]
       /\ launch.fallback_reply = None => lm = "returned"
       /\ launch.fallback_reply # None =>
            /\ lm = "raised"
            /\ lmError = Some([by |-> "fallback",
                               message |-> launch.fallback_reply[1]])

\* the fallback call raised an already-exists error, and launch_models
\* raised it
C16_Witness ==
  /\ Len(launch.calls) = 2
  /\ launch.fallback_reply = Some(MsgExistsUpper)
  /\ lm = "raised"

\* C19: _initialized is never reset once true, and a handler call that
\* began with _initialized true goes from the test of the flag to the job:
\* it takes no lock and runs no boot step
C19_ReadyAbsorbing ==
  /\ [][_initialized => _initialized']_vars
  /\ [](\A t \in Threads : calledReady[t] => pc[t] \in {"idle", "check", "body"})

\* a call that began on an initialized worker has reached the job
C19_Witness ==
  \E t \in Threads : calledReady[t] /\ pc[t] = "body" /\ bootSuccesses = 1

\* the daemons the handler spawned that are still alive
Alive == {i \in DOMAIN daemons : daemons[i] # "exited"}

\* C20: at most one daemon spawned by the handler is alive at any time, and
\* once _shutdown has run no spawned daemon is still running unstopped
C20_NoDaemonLeaked ==
  /\ Cardinality(Alive) <= 1
  /\ cleaned => \A i \in DOMAIN daemons : i # _server_proc => daemons[i] = "exited"

\* the keys whose existence check answered 404, in the order of the checks
Answered404 ==
  LET hits == SelectSeq(sync.checked, LAMBDA c : c.code = 404)
  IN [i \in 1..Len(hits) |-> hits[i].key]

\* C18 as stated: with required keys configured, ensure_s3_model does not end
\* before every required key was checked, and when some key answered 404 it
\* ends in the error that lists exactly those keys
C18_AllChecked ==
  sync.pc = "done" /\ sync.required # <<>> =>
    /\ Len(sync.checked) = Len(sync.required)
    /\ Answered404 # <<>> =>
         sync.outcome = "missing_keys" /\ sync.missing = Answered404

\* C18, amended: as long as every existence check answers found or 404, the
\* loop checks every required key, each under full_key, and collects the
\* keys that answered 404; when there are any, ensure_s3_model ends in the
\* error listing exactly them, having listed and downloaded nothing
C18_MissingCollected ==
  /\ sync.required # <<>> /\ sync.pc # "head"
  /\ \A i \in DOMAIN sync.checked : sync.checked[i].code \in {200, 404}
  =>
  /\ Len(sync.checked) = Len(sync.required)
  /\ \A i \in DOMAIN sync.checked :
       sync.checked[i].key = full_key(sync.prefix, sync.required[i])
  /\ sync.missing = Answered404
  /\ Answered404 # <<>> =>
       /\ sync.pc = "done" /\ sync.outcome = "missing_keys"
       /\ ~sync.listed /\ sync.log = <<>>

\* three required keys, the first and the last missing: both are listed
C18_Witness ==
  /\ sync.outcome = "missing_keys"
  /\ Len(sync.checked) = 3
  /\ sync.checked[1].code = 404 /\ sync.checked[2].code = 200
  /\ Len(sync.missing) = 2

\* C17: a call of stop_server sends kill only after its own terminate, when
\* the wait timed out, and never raises to its caller
C17_NeverRaises ==
  /\ lastStop.kill <= lastStop.term
  /\ ~lastStop.raised

====
